---- MODULE Spec2Model ----
\* Wavefront computation of a3.c / state_array.c: one worker thread per interior
\* cell, per-cell mutex + condition variable, a reusable barrier with a
\* last-arriver callback (barrier_function), and the driver (main / wavefront).
EXTENDS Integers, Sequences, FiniteSets, TLC

\* ---------------------------------------------------------------- bounds
\* Grids have at most MaxWorkers interior cells; runs have at most MaxRounds rounds.
MaxWorkers == 2
MaxRounds == 2
\* A run has at most MaxSpurious spurious returns of pthread_cond_wait.
MaxSpurious == 1
\* the largest number of rows and of columns of the grids whose values are swept
MaxDim == 16

\* ---------------------------------------------------------------- constants
EXIT_SUCCESS == 0
EXIT_FAILURE == 1
\* thread id of the driver thread, and the "nobody" owner of a mutex
Main == -1
Free == -2
\* exit status of a process that has not terminated
Running == -3

VARIABLES
    argc,        \* main: number of command-line words
    nrows,       \* state_array.c: nrows
    ncols,       \* state_array.c: ncols
    numRounds,   \* wavefront: numRounds (reps)
    saState,     \* state_arr: "null", "live" or "destroyed"
    sum,         \* state_arr[i].sum
    lock,        \* state_arr[i].lock: its owner, or Free
    pc,          \* position of every thread (Main and the workers)
    ph,          \* worker: which cell it is working on (1 = E, 2 = S, 3 = ES, 4 = own)
    round,       \* the loop variable round of wavefront / doWork
    e_sum,       \* doWork: e_sum
    s_sum,       \* doWork: s_sum
    es_sum,      \* doWork: es_sum
    loopI,       \* loop index of the loop a thread is in (spawn, initBorders, reset, join)
    thread_arr,  \* wavefront: thread_arr (slot -> home cell of the thread, Free if unset)
    thrd_count,  \* wavefront: thrd_count
    gResult,     \* a3.c: gResult
    bState,      \* barrier: "uninit", "live" or "destroyed"
    capacity,    \* barrier: number of participants
    arrived,     \* barrier: participants that have arrived in the current cycle
    generation,  \* barrier: cycle number
    bmutex,      \* barrier: its mutex's owner, or Free
    myGen,       \* barrier: the generation a waiter observed on entry
    entered,     \* history: number of barrier_wait calls each thread has made
    returned,    \* history: number of barrier_wait calls each thread has returned from
    actionCount, \* history: number of runs of barrier_function that have begun
    printed,     \* history: the "Round r, result is v" lines, as <<r, v>>
    actionDone,  \* history: number of completed runs of barrier_function
    spurious,    \* history: number of spurious wakeups so far
    epoch,       \* history: the round each cell's current sum was written for
    captured,    \* history: the values barrier_function has stored in gResult
    fault,       \* history: the library call that failed, or "none"
    wfRet,       \* the value wavefront returned (Running while it has not)
    exitCode     \* exit status of the process, or Running

vars == <<argc, nrows, ncols, numRounds, saState, sum, lock, pc, ph, round, e_sum,
          s_sum, es_sum, loopI, thread_arr, thrd_count, gResult, bState, capacity,
          arrived, generation, bmutex, myGen, entered, returned, actionCount,
          actionDone,
          printed, spurious, epoch, captured, fault, wfRet, exitCode>>

\* ---------------------------------------------------------------- grid
\* the grids with at least 2 rows and 2 columns and at most MaxWorkers interior cells
Grids == {g \in (2..(MaxWorkers + 1)) \X (2..(MaxWorkers + 1)) :
             (g[1] - 1) * (g[2] - 1) <= MaxWorkers}

ArgCounts == {3, 4}

arr_len == nrows * ncols
Cells == 0..(arr_len - 1)

index(r, c) == r * ncols + c
E(i) == i + 1
S(i) == i + ncols
ES(i) == S(i) + 1

num_thread_rows == nrows - 1
num_thread_cols == ncols - 1
thread_arr_len == num_thread_rows * num_thread_cols

\* the launch condition with "or" in place of "and"
IsInterior_or(i, j) == (i # num_thread_rows) \/ (j # num_thread_cols)

\* the loop condition of the launch loop: cell (i, j) gets a thread
IsInterior(i, j) == (i # num_thread_rows) /\ (j # num_thread_cols)

Workers == {index(i, j) : i \in 0..(nrows - 2), j \in 0..(ncols - 2)}
Threads == Workers \cup {Main}

\* the first loop taking the column before the last
BorderAt_wrongColumn(k) ==
    IF k < nrows THEN index(k, ncols - 2) ELSE index(nrows - 1, k - nrows)

\* the k-th cell initBorders visits, k = 0 .. nrows + ncols - 2
BorderAt(k) == IF k < nrows THEN index(k, ncols - 1) ELSE index(nrows - 1, k - nrows)
\* the second loop running to ncols, as in signalBorderCVs: the corner is visited twice
NumBorders_cornerTwice == nrows + ncols
\* the second loop stopping one cell early
NumBorders_short == nrows + (ncols - 2)
NumBorders == nrows + (ncols - 1)
BorderCells == {BorderAt(k) : k \in 0..(NumBorders - 1)}

\* the cell worker w works on in phase p
Dep(w, p) == CASE p = 1 -> E(w) [] p = 2 -> S(w) [] p = 3 -> ES(w) [] OTHER -> w

\* ---------------------------------------------------------------- Init
Init ==
    /\ argc \in ArgCounts
    /\ \E g \in Grids : nrows = g[1] /\ ncols = g[2]
    /\ numRounds \in 0..MaxRounds
    /\ saState = "null"
    /\ sum = [c \in Cells |-> 0]
    /\ lock = [c \in Cells |-> Free]
    /\ pc = [t \in Threads |-> IF t = Main THEN "main" ELSE "none"]
    /\ ph = [w \in Workers |-> 1]
    /\ round = [t \in Threads |-> 0]
    /\ e_sum = [w \in Workers |-> 0]
    /\ s_sum = [w \in Workers |-> 0]
    /\ es_sum = [w \in Workers |-> 0]
    /\ loopI = [t \in Threads |-> 0]
    /\ thread_arr = [i \in 0..(thread_arr_len - 1) |-> Free]
    /\ thrd_count = 0
    /\ gResult = 0
    /\ bState = "uninit"
    /\ capacity = 0
    /\ arrived = 0
    /\ generation = 0
    /\ bmutex = Free
    /\ myGen = [t \in Threads |-> 0]
    /\ entered = [t \in Threads |-> 0]
    /\ returned = [t \in Threads |-> 0]
    /\ actionCount = 0
    /\ printed = <<>>
    /\ actionDone = 0
    /\ spurious = 0
    /\ epoch = [c \in Cells |-> 0]
    /\ captured = <<>>
    /\ fault = "none"
    /\ wfRet = Running
    /\ exitCode = Running

Alive == exitCode = Running

\* ---------------------------------------------------------------- helpers
\* int arithmetic of the build: 32-bit two's complement, a + b modulo 2^32
INT_MAX == 2147483647
Add32(a, b) ==
    IF a > 0 /\ b > 0 /\ a > INT_MAX - b
      THEN ((a - INT_MAX) - 1) + ((b - INT_MAX) - 1)
      ELSE IF a < 0 /\ b < 0 /\ a < ((0 - INT_MAX) - 1) - b
             THEN ((a + INT_MAX) + 1) + ((b + INT_MAX) + 1)
             ELSE a + b

\* pthread_cond_signal in its place: one of the workers blocked on the cv is woken
Broadcast_signal(c, pcf) ==
    LET ws == {u \in Workers : pcf[u] = "wait" /\ Dep(u, ph[u]) = c}
    IN IF ws = {} THEN pcf ELSE [pcf EXCEPT ![CHOOSE u \in ws : TRUE] = "woken"]

\* pthread_cond_broadcast on cell c's cv: every worker blocked on it is woken
Broadcast(c, pcf) ==
    [u \in Threads |->
        IF u \in Workers /\ pcf[u] = "wait" /\ Dep(u, ph[u]) = c THEN "woken" ELSE pcf[u]]

\* the capacity without the driver's own place
BarrierCapacity_noDriver == thread_arr_len

\* capacity the driver gives the barrier
BarrierCapacity == thread_arr_len + 1

\* where a thread goes when barrier_wait returns
AfterBarrier(t, pcf) ==
    /\ pc' = [pcf EXCEPT ![t] = IF t = Main THEN "print"
                                ELSE IF round[t] + 1 < numRounds THEN "lock" ELSE "done"]
    /\ round' = IF t = Main THEN round ELSE [round EXCEPT ![t] = @ + 1]
    /\ ph' = IF t = Main THEN ph ELSE [ph EXCEPT ![t] = 1]

\* a driver that never joins the rendezvous
DriverLoop_noWait(r) == "join"

\* first statement of the driver's round loop, or of what follows it
DriverLoop(r) == IF r < numRounds THEN "b_call" ELSE "join"

\* ---------------------------------------------------------------- driver
\* main: the argument count check
MainArgs ==
    /\ Alive /\ pc[Main] = "main"
    /\ IF argc # 4
         THEN /\ exitCode' = EXIT_FAILURE
              /\ pc' = [pc EXCEPT ![Main] = "exited"]
         ELSE /\ pc' = [pc EXCEPT ![Main] = "createStateArray"]
              /\ UNCHANGED exitCode
    /\ UNCHANGED <<captured, epoch, spurious, argc, nrows, ncols, numRounds, saState, sum, lock, ph, round, e_sum,
                   s_sum, es_sum, loopI, thread_arr, thrd_count, gResult, bState,
                   capacity, arrived, generation, bmutex, myGen, entered, returned,
                   actionCount, actionDone, printed, fault, wfRet>>

createStateArray ==
    /\ Alive /\ pc[Main] = "createStateArray"
    /\ saState' = "live"
    /\ sum' = [c \in Cells |-> 0]
    /\ epoch' = [c \in Cells |-> 0]
    /\ lock' = [c \in Cells |-> Free]
    /\ pc' = [pc EXCEPT ![Main] = "barrier_init"]
    /\ UNCHANGED <<captured, spurious, argc, nrows, ncols, numRounds, ph, round, e_sum,
                   s_sum, es_sum, loopI, thread_arr, thrd_count, gResult, bState,
                   capacity, arrived, generation, bmutex, myGen, entered, returned,
                   actionCount, actionDone, printed, fault, wfRet, exitCode>>

\* barrier_init(&barrier, thread_arr_len + 1, barrier_function), which may fail
BarrierInit ==
    /\ Alive /\ pc[Main] = "barrier_init"
    /\ \E ok \in BOOLEAN :
         IF ok
           THEN /\ bState' = "live"
                /\ capacity' = BarrierCapacity
                /\ pc' = [pc EXCEPT ![Main] = "spawn"]
                /\ UNCHANGED <<fault, wfRet>>
           ELSE /\ fault' = "barrier_init"
                /\ wfRet' = EXIT_FAILURE
                /\ pc' = [pc EXCEPT ![Main] = "return"]
                /\ UNCHANGED <<bState, capacity>>
    /\ arrived' = 0 /\ generation' = 0 /\ bmutex' = Free
    /\ UNCHANGED <<captured, epoch, spurious, argc, nrows, ncols, numRounds, saState, sum, lock, ph, round, e_sum,
                   s_sum, es_sum, loopI, thread_arr, thrd_count, gResult,
                   myGen, entered, returned,
                   actionCount, actionDone, printed, exitCode>>

\* one iteration of the launch loop, at position (i, j) = loopI[Main] in row-major order
Spawn ==
    /\ Alive /\ pc[Main] = "spawn"
    /\ LET p == loopI[Main]
           i == p \div ncols
           j == p % ncols
           last == p + 1 = nrows * ncols
           pc1 == IF IsInterior(i, j)
                    THEN [pc EXCEPT ![index(i, j)] = IF 0 < numRounds THEN "lock" ELSE "done"]
                    ELSE pc
       IN /\ IF IsInterior(i, j)
               THEN /\ thread_arr' = [thread_arr EXCEPT ![thrd_count] = index(i, j)]
                    /\ thrd_count' = thrd_count + 1
               ELSE UNCHANGED <<thread_arr, thrd_count>>
          /\ pc' = [pc1 EXCEPT ![Main] = IF last THEN "ib_lock" ELSE "spawn"]
          /\ loopI' = [loopI EXCEPT ![Main] = IF last THEN 0 ELSE p + 1]
    /\ UNCHANGED <<captured, epoch, spurious, argc, nrows, ncols, numRounds, saState, sum, lock, ph, round, e_sum,
                   s_sum, es_sum, gResult, bState,
                   capacity, arrived, generation, bmutex, myGen, entered, returned,
                   actionCount, actionDone, printed, fault, wfRet, exitCode>>

\* the driver prints the round's result and steps its loop
PrintResult ==
    /\ Alive /\ pc[Main] = "print"
    /\ printed' = Append(printed, <<round[Main], gResult>>)
    /\ round' = [round EXCEPT ![Main] = @ + 1]
    /\ pc' = [pc EXCEPT ![Main] = DriverLoop(round[Main] + 1)]
    /\ UNCHANGED <<captured, epoch, spurious, argc, nrows, ncols, numRounds, saState, sum, lock, ph, e_sum,
                   s_sum, es_sum, loopI, thread_arr, thrd_count, gResult, bState,
                   capacity, arrived, generation, bmutex, myGen, entered, returned,
                   actionCount, actionDone, fault, wfRet, exitCode>>

\* a join that returns without waiting for the thread to end
Join_noWait ==
    /\ Alive /\ pc[Main] = "join"
    /\ LET i == loopI[Main]
       IN \/ /\ pc[thread_arr[i]] # "none"
             /\ loopI' = [loopI EXCEPT ![Main] = IF i + 1 = thread_arr_len THEN 0 ELSE i + 1]
             /\ pc' = [pc EXCEPT ![Main] = IF i + 1 = thread_arr_len
                                             THEN "destroyStateArray" ELSE "join"]
             /\ UNCHANGED <<fault, wfRet>>
          \/ /\ fault' = "pthread_join"
             /\ wfRet' = EXIT_FAILURE
             /\ pc' = [pc EXCEPT ![Main] = "return"]
             /\ UNCHANGED loopI
    /\ UNCHANGED <<captured, epoch, spurious, argc, nrows, ncols, numRounds, saState, sum, lock, ph, round, e_sum,
                   s_sum, es_sum, thread_arr, thrd_count, gResult, bState,
                   capacity, arrived, generation, bmutex, myGen, entered, returned,
                   actionCount, actionDone, printed, exitCode>>

\* pthread_join(thread_arr[i]): returns 0 once that thread has ended, or fails
Join ==
    /\ Alive /\ pc[Main] = "join"
    /\ LET i == loopI[Main]
       IN \/ /\ pc[thread_arr[i]] = "done"
             /\ loopI' = [loopI EXCEPT ![Main] = IF i + 1 = thread_arr_len THEN 0 ELSE i + 1]
             /\ pc' = [pc EXCEPT ![Main] = IF i + 1 = thread_arr_len
                                             THEN "destroyStateArray" ELSE "join"]
             /\ UNCHANGED <<fault, wfRet>>
          \/ /\ fault' = "pthread_join"
             /\ wfRet' = EXIT_FAILURE
             /\ pc' = [pc EXCEPT ![Main] = "return"]
             /\ UNCHANGED loopI
    /\ UNCHANGED <<captured, epoch, spurious, argc, nrows, ncols, numRounds, saState, sum, lock, ph, round, e_sum,
                   s_sum, es_sum, thread_arr, thrd_count, gResult, bState,
                   capacity, arrived, generation, bmutex, myGen, entered, returned,
                   actionCount, actionDone, printed, exitCode>>

destroyStateArray ==
    /\ Alive /\ pc[Main] = "destroyStateArray"
    /\ saState' = "destroyed"
    /\ pc' = [pc EXCEPT ![Main] = "barrier_destroy"]
    /\ UNCHANGED <<captured, epoch, spurious, argc, nrows, ncols, numRounds, sum, lock, ph, round, e_sum,
                   s_sum, es_sum, loopI, thread_arr, thrd_count, gResult, bState,
                   capacity, arrived, generation, bmutex, myGen, entered, returned,
                   actionCount, actionDone, printed, fault, wfRet, exitCode>>

\* barrier_destroy(&barrier), which may fail; then wavefront returns
BarrierDestroy ==
    /\ Alive /\ pc[Main] = "barrier_destroy"
    /\ \E ok \in BOOLEAN :
         IF ok
           THEN /\ bState' = "destroyed"
                /\ wfRet' = EXIT_SUCCESS
                /\ UNCHANGED fault
           ELSE /\ fault' = "barrier_destroy"
                /\ wfRet' = EXIT_FAILURE
                /\ UNCHANGED bState
    /\ pc' = [pc EXCEPT ![Main] = "return"]
    /\ UNCHANGED <<captured, epoch, spurious, argc, nrows, ncols, numRounds, saState, sum, lock, ph, round, e_sum,
                   s_sum, es_sum, loopI, thread_arr, thrd_count, gResult,
                   capacity, arrived, generation, bmutex, myGen, entered, returned,
                   actionCount, actionDone, printed, exitCode>>

\* the status main ends with after wavefront has returned r: main has no return
\* statement after the call, so it ends with status 0 whatever wavefront returned
MainStatus(r) == 0

\* main reaches its closing brace; the process ends, and every thread with it
MainReturn ==
    /\ Alive /\ pc[Main] = "return"
    /\ exitCode' = MainStatus(wfRet)
    /\ pc' = [pc EXCEPT ![Main] = "exited"]
    /\ UNCHANGED <<captured, epoch, spurious, argc, nrows, ncols, numRounds, saState, sum, lock, ph, round, e_sum,
                   s_sum, es_sum, loopI, thread_arr, thrd_count, gResult, bState,
                   capacity, arrived, generation, bmutex, myGen, entered, returned,
                   actionCount, actionDone, printed, fault, wfRet>>

\* ---------------------------------------------------------------- initBorders
\* initBorders, run by the driver before round 0 and by the barrier's last arriver:
\* lock the loopI-th border cell
initBorders_lock(t) ==
    /\ Alive /\ pc[t] = "ib_lock"
    /\ lock[BorderAt(loopI[t])] = Free
    /\ lock' = [lock EXCEPT ![BorderAt(loopI[t])] = t]
    /\ pc' = [pc EXCEPT ![t] = "ib_set"]
    /\ UNCHANGED <<captured, epoch, spurious, argc, nrows, ncols, numRounds, saState, sum, ph, round, e_sum,
                   s_sum, es_sum, loopI, thread_arr, thrd_count, gResult, bState,
                   capacity, arrived, generation, bmutex, myGen, entered, returned,
                   actionCount, actionDone, printed, fault, wfRet, exitCode>>

\* the value initBorders stores in a border cell
BorderValue == 1

\* set the locked border cell to 1, broadcast on its cv, unlock it, step the loop;
\* after the last border cell initBorders returns to its caller
initBorders_set(t) ==
    /\ Alive /\ pc[t] = "ib_set"
    /\ LET b == BorderAt(loopI[t])
           last == loopI[t] + 1 = NumBorders
           inBarrier == bmutex = t
           nxt == IF ~last THEN "ib_lock"
                  ELSE IF inBarrier THEN "b_release" ELSE DriverLoop(0)
       IN /\ sum' = [sum EXCEPT ![b] = BorderValue]
          /\ epoch' = [epoch EXCEPT ![b] = IF inBarrier THEN generation + 1 ELSE 0]
          /\ lock' = [lock EXCEPT ![b] = Free]
          /\ pc' = [Broadcast(b, pc) EXCEPT ![t] = nxt]
          /\ loopI' = [loopI EXCEPT ![t] = IF last THEN 0 ELSE @ + 1]
          /\ actionDone' = IF last /\ inBarrier THEN actionDone + 1 ELSE actionDone
    /\ UNCHANGED <<captured, spurious, argc, nrows, ncols, numRounds, saState, ph, round, e_sum,
                   s_sum, es_sum, thread_arr, thrd_count, gResult, bState,
                   capacity, arrived, generation, bmutex, myGen, entered, returned,
                   actionCount, printed, fault, wfRet, exitCode>>

\* ---------------------------------------------------------------- barrier
\* barrier_wait, entry: take the barrier's mutex and count the arrival; the last
\* arriver keeps the mutex and runs the action, the others wait for the generation
\* to change (the wait releases the mutex)
barrier_wait_enter(t) ==
    /\ Alive /\ pc[t] = "b_call"
    /\ bmutex = Free
    /\ entered' = [entered EXCEPT ![t] = @ + 1]
    /\ arrived' = arrived + 1
    /\ IF arrived + 1 = capacity
         THEN /\ bmutex' = t
              /\ pc' = [pc EXCEPT ![t] = "bf_result"]
              /\ UNCHANGED myGen
         ELSE /\ myGen' = [myGen EXCEPT ![t] = generation]
              /\ pc' = [pc EXCEPT ![t] = "b_wait"]
              /\ UNCHANGED bmutex
    /\ UNCHANGED <<captured, epoch, spurious, argc, nrows, ncols, numRounds, saState, sum, lock, ph, round, e_sum,
                   s_sum, es_sum, loopI, thread_arr, thrd_count, gResult, bState,
                   capacity, generation, returned,
                   actionCount, actionDone, printed, fault, wfRet, exitCode>>

\* barrier_function without its call of resetStateArray
barrier_function_result_noReset(t) ==
    /\ Alive /\ pc[t] = "bf_result"
    /\ gResult' = sum[0]
    /\ captured' = Append(captured, sum[0])
    /\ actionCount' = actionCount + 1
    /\ pc' = [pc EXCEPT ![t] = "ib_lock"]
    /\ loopI' = [loopI EXCEPT ![t] = 0]
    /\ UNCHANGED <<epoch, spurious, argc, nrows, ncols, numRounds, saState, sum, lock, ph,
                   round, e_sum, s_sum, es_sum, thread_arr, thrd_count, bState,
                   capacity, arrived, generation, bmutex, myGen, entered, returned,
                   actionDone, printed, fault, wfRet, exitCode>>

\* barrier_function, first statement: gResult = getStateArray()[0].sum
barrier_function_result(t) ==
    /\ Alive /\ pc[t] = "bf_result"
    /\ gResult' = sum[0]
    /\ captured' = Append(captured, sum[0])
    /\ actionCount' = actionCount + 1
    /\ pc' = [pc EXCEPT ![t] = "rs_lock"]
    /\ loopI' = [loopI EXCEPT ![t] = 0]
    /\ UNCHANGED << epoch, spurious, argc, nrows, ncols, numRounds, saState, sum, lock, ph, round, e_sum,
                   s_sum, es_sum, thread_arr, thrd_count, bState,
                   capacity, arrived, generation, bmutex, myGen, entered, returned,
                   actionDone, printed, fault, wfRet, exitCode>>

\* resetStateArray: lock cell loopI
resetStateArray_lock(t) ==
    /\ Alive /\ pc[t] = "rs_lock"
    /\ lock[loopI[t]] = Free
    /\ lock' = [lock EXCEPT ![loopI[t]] = t]
    /\ pc' = [pc EXCEPT ![t] = "rs_set"]
    /\ UNCHANGED <<captured, epoch, spurious, argc, nrows, ncols, numRounds, saState, sum, ph, round, e_sum,
                   s_sum, es_sum, loopI, thread_arr, thrd_count, gResult, bState,
                   capacity, arrived, generation, bmutex, myGen, entered, returned,
                   actionCount, actionDone, printed, fault, wfRet, exitCode>>

\* resetStateArray: set the locked cell's sum to 0, unlock it, step the loop; after
\* the last cell barrier_function goes on to initBorders
resetStateArray_set(t) ==
    /\ Alive /\ pc[t] = "rs_set"
    /\ LET i == loopI[t]
           last == i + 1 = arr_len
       IN /\ sum' = [sum EXCEPT ![i] = 0]
          /\ epoch' = [epoch EXCEPT ![i] = generation + 1]
          /\ lock' = [lock EXCEPT ![i] = Free]
          /\ pc' = [pc EXCEPT ![t] = IF last THEN "ib_lock" ELSE "rs_lock"]
          /\ loopI' = [loopI EXCEPT ![t] = IF last THEN 0 ELSE i + 1]
    /\ UNCHANGED <<captured, spurious, argc, nrows, ncols, numRounds, saState, ph, round, e_sum,
                   s_sum, es_sum, thread_arr, thrd_count, gResult, bState,
                   capacity, arrived, generation, bmutex, myGen, entered, returned,
                   actionCount, actionDone, printed, fault, wfRet, exitCode>>

\* barrier_wait, last arriver after the action: reset arrived, advance the
\* generation, wake the waiters, release the mutex and return
barrier_wait_release(t) ==
    /\ Alive /\ pc[t] = "b_release"
    /\ arrived' = 0
    /\ generation' = generation + 1
    /\ bmutex' = Free
    /\ returned' = [returned EXCEPT ![t] = @ + 1]
    /\ AfterBarrier(t, pc)
    /\ UNCHANGED <<captured, epoch, spurious, argc, nrows, ncols, numRounds, saState, sum, lock, e_sum,
                   s_sum, es_sum, loopI, thread_arr, thrd_count, gResult, bState,
                   capacity, myGen, entered,
                   actionCount, actionDone, printed, fault, wfRet, exitCode>>

\* the wait predicate of a thread blocked in barrier_wait
BarrierOpen(t) == generation # myGen[t]

\* barrier_wait, a waiter: once the generation has changed it re-takes the mutex,
\* releases it and returns
barrier_wait_return(t) ==
    /\ Alive /\ pc[t] = "b_wait"
    /\ BarrierOpen(t)
    /\ bmutex = Free
    /\ returned' = [returned EXCEPT ![t] = @ + 1]
    /\ AfterBarrier(t, pc)
    /\ UNCHANGED <<captured, epoch, spurious, argc, nrows, ncols, numRounds, saState, sum, lock, e_sum,
                   s_sum, es_sum, loopI, thread_arr, thrd_count, gResult, bState,
                   capacity, arrived, generation, bmutex, myGen, entered,
                   actionCount, actionDone, printed, fault, wfRet, exitCode>>

\* ---------------------------------------------------------------- worker (doWork)
\* the worker goes on without taking the cell's lock
doWork_lock_unlocked(w) ==
    /\ Alive /\ pc[w] = "lock"
    /\ pc' = [pc EXCEPT ![w] = IF ph[w] = 4 THEN "publish" ELSE "check"]
    /\ UNCHANGED <<captured, epoch, spurious, argc, nrows, ncols, numRounds, saState, sum, lock, ph, round,
                   e_sum, s_sum, es_sum, loopI, thread_arr, thrd_count, gResult, bState,
                   capacity, arrived, generation, bmutex, myGen, entered, returned,
                   actionCount, actionDone, printed, fault, wfRet, exitCode>>

\* pthread_mutex_lock on the cell of the current phase
doWork_lock(w) ==
    /\ Alive /\ pc[w] = "lock"
    /\ lock[Dep(w, ph[w])] = Free
    /\ lock' = [lock EXCEPT ![Dep(w, ph[w])] = w]
    /\ pc' = [pc EXCEPT ![w] = IF ph[w] = 4 THEN "publish" ELSE "check"]
    /\ UNCHANGED <<captured, epoch, spurious, argc, nrows, ncols, numRounds, saState, sum, ph, round, e_sum,
                   s_sum, es_sum, loopI, thread_arr, thrd_count, gResult, bState,
                   capacity, arrived, generation, bmutex, myGen, entered, returned,
                   actionCount, actionDone, printed, fault, wfRet, exitCode>>

\* x_sum = getStateArray()[x_idx].sum; unlock; go on to the next cell
ReadNeighbor(w) ==
    LET d == Dep(w, ph[w])
    IN /\ e_sum' = IF ph[w] = 1 THEN [e_sum EXCEPT ![w] = sum[d]] ELSE e_sum
       /\ s_sum' = IF ph[w] = 2 THEN [s_sum EXCEPT ![w] = sum[d]] ELSE s_sum
       /\ es_sum' = IF ph[w] = 3 THEN [es_sum EXCEPT ![w] = sum[d]] ELSE es_sum
       /\ lock' = [lock EXCEPT ![d] = Free]
       /\ ph' = [ph EXCEPT ![w] = @ + 1]
       /\ pc' = [pc EXCEPT ![w] = "lock"]

\* the neighbour's value read without the test and the wait
doWork_check_noWait(w) ==
    /\ Alive /\ pc[w] = "check"
    /\ ReadNeighbor(w)
    /\ UNCHANGED <<captured, epoch, spurious, argc, nrows, ncols, numRounds, saState, sum, round,
                   loopI, thread_arr, thrd_count, gResult, bState,
                   capacity, arrived, generation, bmutex, myGen, entered, returned,
                   actionCount, actionDone, printed, fault, wfRet, exitCode>>

\* if (sum == 0) pthread_cond_wait(...): the wait releases the lock and blocks;
\* otherwise the value is read and the lock released
doWork_check(w) ==
    /\ Alive /\ pc[w] = "check"
    /\ IF sum[Dep(w, ph[w])] = 0
         THEN /\ lock' = [lock EXCEPT ![Dep(w, ph[w])] = Free]
              /\ pc' = [pc EXCEPT ![w] = "wait"]
              /\ UNCHANGED <<e_sum, s_sum, es_sum, ph>>
         ELSE ReadNeighbor(w)
    /\ UNCHANGED <<captured, epoch, spurious, argc, nrows, ncols, numRounds, saState, sum, round,
                   loopI, thread_arr, thrd_count, gResult, bState,
                   capacity, arrived, generation, bmutex, myGen, entered, returned,
                   actionCount, actionDone, printed, fault, wfRet, exitCode>>

\* pthread_cond_wait returns without a broadcast (POSIX allows a spurious wakeup)
SpuriousWakeup(w) ==
    /\ Alive /\ pc[w] = "wait"
    /\ spurious < MaxSpurious
    /\ spurious' = spurious + 1
    /\ pc' = [pc EXCEPT ![w] = "woken"]
    /\ UNCHANGED <<captured, epoch, argc, nrows, ncols, numRounds, saState, sum, lock, ph, round, e_sum,
                   s_sum, es_sum, loopI, thread_arr, thrd_count, gResult, bState,
                   capacity, arrived, generation, bmutex, myGen, entered, returned,
                   actionCount, actionDone, printed, fault, wfRet, exitCode>>

\* a woken pthread_cond_wait re-takes the cell's lock before it returns
doWork_wake(w) ==
    /\ Alive /\ pc[w] = "woken"
    /\ lock[Dep(w, ph[w])] = Free
    /\ lock' = [lock EXCEPT ![Dep(w, ph[w])] = w]
    /\ pc' = [pc EXCEPT ![w] = "read"]
    /\ UNCHANGED <<captured, epoch, spurious, argc, nrows, ncols, numRounds, saState, sum, ph, round, e_sum,
                   s_sum, es_sum, loopI, thread_arr, thrd_count, gResult, bState,
                   capacity, arrived, generation, bmutex, myGen, entered, returned,
                   actionCount, actionDone, printed, fault, wfRet, exitCode>>

\* after the wait the value is read without a second test
doWork_read(w) ==
    /\ Alive /\ pc[w] = "read"
    /\ ReadNeighbor(w)
    /\ UNCHANGED <<captured, epoch, spurious, argc, nrows, ncols, numRounds, saState, sum, round,
                   loopI, thread_arr, thrd_count, gResult, bState,
                   capacity, arrived, generation, bmutex, myGen, entered, returned,
                   actionCount, actionDone, printed, fault, wfRet, exitCode>>

\* the test that guards the store to the worker's own cell
AllSet(e, s, es) == (e # 0) /\ (s # 0) /\ (es # 0)

\* the south value subtracted from the east value
NewSum_eastMinusSouth(e, s, es) == Add32(e, 0 - s)

\* the sum without the southeast value
NewSum_twoTerms(e, s, es) == Add32(e, s)

\* the value stored: e_sum + s_sum + es_sum in int arithmetic
NewSum(e, s, es) == Add32(Add32(e, s), es)

\* under the own cell's lock: store the sum and broadcast if all three values are
\* non-zero; unlock; the round's locals die and the worker goes to the barrier
doWork_publish(w) ==
    /\ Alive /\ pc[w] = "publish"
    /\ IF AllSet(e_sum[w], s_sum[w], es_sum[w])
         THEN /\ sum' = [sum EXCEPT ![w] = NewSum(e_sum[w], s_sum[w], es_sum[w])]
              /\ epoch' = [epoch EXCEPT ![w] = round[w]]
              /\ pc' = [Broadcast(w, pc) EXCEPT ![w] = "b_call"]
         ELSE /\ pc' = [pc EXCEPT ![w] = "b_call"]
              /\ UNCHANGED <<sum, epoch>>
    /\ lock' = [lock EXCEPT ![w] = Free]
    /\ e_sum' = [e_sum EXCEPT ![w] = 0]
    /\ s_sum' = [s_sum EXCEPT ![w] = 0]
    /\ es_sum' = [es_sum EXCEPT ![w] = 0]
    /\ UNCHANGED <<captured, spurious, argc, nrows, ncols, numRounds, saState, ph, round,
                   loopI, thread_arr, thrd_count, gResult, bState,
                   capacity, arrived, generation, bmutex, myGen, entered, returned,
                   actionCount, actionDone, printed, fault, wfRet, exitCode>>

\* ---------------------------------------------------------------- specification
Next ==
    \/ MainArgs
    \/ createStateArray
    \/ BarrierInit
    \/ Spawn
    \/ PrintResult
    \/ Join
    \/ destroyStateArray
    \/ BarrierDestroy
    \/ MainReturn
    \/ \E t \in Threads : initBorders_lock(t)
    \/ \E t \in Threads : initBorders_set(t)
    \/ \E t \in Threads : barrier_wait_enter(t)
    \/ \E t \in Threads : barrier_function_result(t)
    \/ \E t \in Threads : resetStateArray_lock(t)
    \/ \E t \in Threads : resetStateArray_set(t)
    \/ \E t \in Threads : barrier_wait_release(t)
    \/ \E t \in Threads : barrier_wait_return(t)
    \/ \E w \in Workers : doWork_lock(w)
    \/ \E w \in Workers : doWork_check(w)
    \/ \E w \in Workers : SpuriousWakeup(w)
    \/ \E w \in Workers : doWork_wake(w)
    \/ \E w \in Workers : doWork_read(w)
    \/ \E w \in Workers : doWork_publish(w)

Spec == Init /\ [][Next]_vars

\* the program on a platform whose condition waits return only after a broadcast
NextNoSpurious ==
    \/ MainArgs
    \/ createStateArray
    \/ BarrierInit
    \/ Spawn
    \/ PrintResult
    \/ Join
    \/ destroyStateArray
    \/ BarrierDestroy
    \/ MainReturn
    \/ \E t \in Threads : initBorders_lock(t)
    \/ \E t \in Threads : initBorders_set(t)
    \/ \E t \in Threads : barrier_wait_enter(t)
    \/ \E t \in Threads : barrier_function_result(t)
    \/ \E t \in Threads : resetStateArray_lock(t)
    \/ \E t \in Threads : resetStateArray_set(t)
    \/ \E t \in Threads : barrier_wait_release(t)
    \/ \E t \in Threads : barrier_wait_return(t)
    \/ \E w \in Workers : doWork_lock(w)
    \/ \E w \in Workers : doWork_check(w)
    \/ \E w \in Workers : doWork_wake(w)
    \/ \E w \in Workers : doWork_read(w)
    \/ \E w \in Workers : doWork_publish(w)

SpecNoSpurious == Init /\ [][NextNoSpurious]_vars

\* ---------------------------------------------------------------- fairness
\* every thread id a grid within the bounds can have
AllIds == {Main} \cup (0..((MaxWorkers + 1) * 2))

\* a step of thread t other than a spurious wakeup
ThreadStep(t) ==
    /\ t \in Threads
    /\ \/ t = Main /\ (MainArgs \/ createStateArray \/ BarrierInit \/ Spawn \/ PrintResult
                         \/ Join \/ destroyStateArray \/ BarrierDestroy \/ MainReturn)
       \/ initBorders_lock(t) \/ initBorders_set(t)
       \/ barrier_wait_enter(t) \/ barrier_function_result(t)
       \/ resetStateArray_lock(t) \/ resetStateArray_set(t)
       \/ barrier_wait_release(t) \/ barrier_wait_return(t)
       \/ t \in Workers /\ (doWork_lock(t) \/ doWork_check(t) \/ doWork_wake(t)
                              \/ doWork_read(t) \/ doWork_publish(t))

\* the scheduler runs every thread that can run; nothing obliges a condition wait
\* to return spuriously
FairSpec == Spec /\ \A t \in AllIds : WF_vars(ThreadStep(t))

\* ---------------------------------------------------------------- definitions for the properties
\* pcs of a worker between the start of a round and its arrival at the barrier
Working == {"lock", "check", "wait", "woken", "read", "publish"}

\* the driver has left its round loop
PastLoop == pc[Main] \in {"join", "destroyStateArray", "barrier_destroy", "return", "exited"}
              /\ bState # "uninit"

\* thread t is running the barrier's last-arriver action or has not yet released the cycle
InAction(t) == bmutex = t /\ pc[t] \in {"bf_result", "rs_lock", "rs_set", "ib_lock", "ib_set", "b_release"}

\* the recurrence: border cells are 1, value = east + south + southeast
RECURSIVE Value(_, _)
Value(r, c) ==
    IF r = nrows - 1 \/ c = ncols - 1 THEN 1
    ELSE Value(r, c + 1) + Value(r + 1, c) + Value(r + 1, c + 1)

\* the cells whose sum thread t reads, and writes, in its next step
ReadSet(t) ==
    IF t \in Workers /\ pc[t] \in {"check", "read"} THEN {Dep(t, ph[t])}
    ELSE IF pc[t] = "bf_result" THEN {0}
    ELSE {}
WriteSet(t) ==
    IF t \in Workers /\ pc[t] = "publish" THEN {t}
    ELSE IF pc[t] = "ib_set" THEN {BorderAt(loopI[t])}
    ELSE IF pc[t] = "rs_set" THEN {loopI[t]}
    ELSE IF t = Main /\ pc[t] = "createStateArray" THEN Cells
    ELSE {}
AccessSet(t) == ReadSet(t) \cup WriteSet(t)

\* ---------------------------------------------------------------- C1
\* C1: every result line the driver prints for round r carries the value of cell
\* (0,0) under the recurrence (3 for 2x2, 5 for 2x3 and 3x2), in round order.
C1_ResultIsRecurrence ==
    \A k \in 1..Len(printed) : printed[k] = <<k - 1, Value(0, 0)>>

\* ---------------------------------------------------------------- C2
\* C2: a value a worker has published to its interior cell is the sum of the values
\* its east, south and southeast neighbours hold, all three of them set; and a
\* non-zero value a worker has read from a neighbour is that neighbour's value.
C2_PublishedIsNeighbourSum ==
    \A w \in Workers :
        /\ sum[w] # 0 =>
              /\ sum[w + 1] # 0 /\ sum[w + ncols] # 0 /\ sum[w + ncols + 1] # 0
              /\ sum[w] = sum[w + 1] + sum[w + ncols] + sum[w + ncols + 1]
        /\ pc[w] \in Working =>
              /\ e_sum[w] \in {0, sum[w + 1]}
              /\ s_sum[w] \in {0, sum[w + ncols]}
              /\ es_sum[w] \in {0, sum[w + ncols + 1]}

\* a worker whose east neighbour is another worker's cell has published
C2_Witness ==
    \E w \in Workers : (w + 1) \in Workers /\ sum[w] = 5 /\ sum[w + 1] = 3

\* ---------------------------------------------------------------- C3
\* C3: a worker that has gone past the wait for a dependency cell holds a set
\* (non-zero) value for it.
C3_ReadOnlySetValues ==
    \A w \in Workers :
        pc[w] \in Working =>
            /\ ph[w] >= 2 => e_sum[w] # 0
            /\ ph[w] >= 3 => s_sum[w] # 0
            /\ ph[w] >= 4 => es_sum[w] # 0

\* ---------------------------------------------------------------- C4
\* C4: a thread that has returned from its g-th barrier wait implies that every
\* participant (all workers and the driver, capacity of them) has made its g-th
\* call and that the g-th run of the last-arriver action has completed.
C4_NoEarlyRelease ==
    /\ bState = "live" => capacity = Cardinality(Workers) + 1
    /\ \A t \in Threads :
          returned[t] >= 1 =>
              /\ \A u \in Threads : entered[u] >= returned[t]
              /\ actionDone >= returned[t]

\* a thread has returned from the second cycle
C4_Witness == \E t \in Threads : returned[t] = 2 /\ Cardinality(Workers) = 2

\* ---------------------------------------------------------------- C5
\* C5: while a thread runs the last-arriver action every other participant is
\* blocked in the wait of that cycle; the action has begun once per completed
\* cycle (plus the one in progress); and when the driver has left its round loop
\* the action has run exactly numRounds times.
C5_ActionOncePerCycle ==
    /\ \A t \in Threads :
          InAction(t) =>
              /\ entered[t] = generation + 1
              /\ \A u \in Threads \ {t} :
                    pc[u] = "b_wait" /\ myGen[u] = generation /\ entered[u] = generation + 1
    /\ actionCount = generation
                       + (IF \E t \in Threads : InAction(t) /\ pc[t] # "bf_result" THEN 1 ELSE 0)
    /\ actionDone = generation + (IF \E t \in Threads : pc[t] = "b_release" THEN 1 ELSE 0)
    /\ PastLoop => actionCount = numRounds /\ actionDone = numRounds

\* the action of the second cycle is running, by a worker, with two workers
C5_Witness ==
    \E t \in Workers : InAction(t) /\ generation = 1 /\ pc[t] = "rs_set"
                          /\ Cardinality(Workers) = 2

\* ---------------------------------------------------------------- C6
\* C6: 0 <= arrived <= capacity always, and arrived counts exactly the threads
\* whose latest call belongs to the cycle in progress; a step that changes the
\* generation adds one to it, with arrived going from capacity to 0; a thread
\* returns once for each call, from the cycle that call belonged to; a blocked
\* thread is held exactly while its own cycle is incomplete.
C6_State ==
    /\ 0 <= arrived /\ arrived <= capacity
    /\ arrived = Cardinality({t \in Threads : entered[t] > generation})
    /\ \A t \in Threads :
          /\ entered[t] \in {returned[t], returned[t] + 1}
          /\ entered[t] <= generation + 1
          /\ (pc[t] = "b_wait") => (BarrierOpen(t) <=> entered[t] <= generation)

C6_Step ==
    /\ C6_State
    /\ C6_State'
    /\ generation' # generation =>
          generation' = generation + 1 /\ arrived = capacity /\ arrived' = 0
    /\ \A t \in Threads :
          returned'[t] # returned[t] =>
              /\ returned'[t] = returned[t] + 1
              /\ returned'[t] = entered[t]
              /\ returned'[t] <= generation'

\* C6: every step of the run keeps the barrier's counters consistent across reuse
\* (C6_Step: the bounds on arrived, one generation per cycle, one release per arrival).
C6_BarrierReuse == [][C6_Step]_vars

\* a fast thread waits in cycle G+1 while a slow one has not yet left cycle G
C6_Witness ==
    \E t, u \in Threads :
        /\ pc[t] = "b_wait" /\ entered[t] = generation + 1
        /\ pc[u] = "b_wait" /\ entered[u] = generation /\ generation >= 1

\* ---------------------------------------------------------------- C7
\* the run has ended, with numRounds result lines in round order, every thread
\* through numRounds barrier waits and every worker ended (when no library call failed)
Terminated ==
    /\ pc[Main] = "exited"
    /\ (argc = 4 /\ fault = "none") =>
          /\ Len(printed) = numRounds
          /\ \A k \in 1..Len(printed) : printed[k][1] = k - 1
          /\ \A t \in Threads : returned[t] = numRounds
          /\ \A w \in Workers : pc[w] = "done"

\* C7: under fair scheduling every run terminates: every worker and the driver
\* complete numRounds barrier waits, numRounds lines are printed in round order
\* and the workers are joined.
C7_Terminates == <>Terminated

\* ---------------------------------------------------------------- C8
\* C8: no thread writes a cell's sum while another thread reads or writes it, and
\* every access is made by the holder of the cell's lock, or by the last arriver
\* reading cell 0 while all others are blocked in the barrier, or by
\* createStateArray before any thread exists.
C8_NoDataRace ==
    \A t \in Threads :
        /\ \A c \in WriteSet(t) : \A u \in Threads \ {t} : c \notin AccessSet(u)
        /\ \A c \in AccessSet(t) :
              \/ lock[c] = t
              \/ pc[t] = "bf_result" /\ \A u \in Threads \ {t} : pc[u] = "b_wait"
              \/ pc[t] = "createStateArray" /\ \A w \in Workers : pc[w] = "none"

\* a thread writes a cell while another thread is waiting for that cell's lock
C8_Witness ==
    \E t \in Threads : \E u \in Workers \ {t} :
        /\ pc[u] \in {"lock", "woken"} /\ Dep(u, ph[u]) \in WriteSet(t)
        /\ lock[Dep(u, ph[u])] = t

\* ---------------------------------------------------------------- C9
\* C9: a process that has ended after a failed library call, or with a wrong
\* argument count, has a non-zero exit status; status 0 means the whole run succeeded.
C9_FailureExitsNonZero ==
    exitCode # Running =>
        /\ (fault # "none" \/ argc # 4) => exitCode # 0
        /\ exitCode = 0 => (fault = "none" /\ argc = 4 /\ bState = "destroyed")

\* ---------------------------------------------------------------- C10
\* C10 as stated: when the driver reads gResult no worker is in its
\* wait-on-dependencies or publish steps.
C10_ReadWhileQuiesced ==
    pc[Main] = "print" => \A w \in Workers : pc[w] \notin Working

\* C10 amended: when the driver reads gResult the last-arriver action of the
\* round it reports has completed and no thread is running the action (the only
\* writer of gResult), the next cycle cannot complete before the driver calls
\* barrier_wait again; workers may be computing the next round.
C10_ReadAfterAction ==
    pc[Main] = "print" =>
        /\ \A t \in Threads : ~InAction(t)
        /\ actionDone = round[Main] + 1
        /\ generation = round[Main] + 1
        /\ arrived < capacity

\* the driver is about to print while a worker computes the next round
C10_Witness ==
    /\ pc[Main] = "print"
    /\ \E w \in Workers : pc[w] \in Working /\ round[w] = round[Main] + 1

\* ---------------------------------------------------------------- C11
\* C11: while the last-arriver action resets and re-seeds the table for round
\* r+1, every worker has finished round r (it has read its three neighbours, done
\* its publish step and is blocked in the barrier wait of round r); and a worker
\* about to read a neighbour's sum in its round r finds a value written for
\* round r, neither one written for round r+1 nor one left over from round r-1.
C11_RoundsDoNotMix ==
    /\ \A t \in Threads :
          pc[t] \in {"rs_lock", "rs_set", "ib_lock", "ib_set"} /\ bmutex = t =>
              \A w \in Workers \ {t} :
                  pc[w] = "b_wait" /\ round[w] = generation /\ ph[w] = 4
    /\ \A w \in Workers :
          pc[w] \in {"check", "read"} => epoch[Dep(w, ph[w])] = round[w]

\* a worker in its second round is about to read a value its neighbour worker
\* has published in that round
C11_Witness ==
    \E w \in Workers :
        /\ pc[w] \in {"check", "read"} /\ round[w] = 1
        /\ Dep(w, ph[w]) \in Workers /\ sum[Dep(w, ph[w])] # 0

\* ---------------------------------------------------------------- C12
\* a step in which a thread executes a store to cell c's sum outside the reset
StoresTo(c) ==
    \/ c \in Workers /\ pc[c] = "publish" /\ pc'[c] # "publish"
          /\ AllSet(e_sum[c], s_sum[c], es_sum[c])
    \/ \E t \in Threads : pc[t] = "ib_set" /\ pc'[t] # "ib_set" /\ BorderAt(loopI[t]) = c

C12_Step ==
    \A c \in Cells :
        /\ StoresTo(c) => sum[c] = 0 /\ sum'[c] # 0
        /\ (sum[c] # 0 /\ sum'[c] # sum[c]) =>
              /\ sum'[c] = 0
              /\ \E t \in Threads : bmutex = t /\ pc[t] = "rs_set" /\ loopI[t] = c

\* C12: every store of a worker or of initBorders finds the cell unset and sets
\* it (so no cell is written twice in a round), and a set cell changes only by
\* becoming unset in the reset of the last-arriver action.
C12_WrittenOncePerRound == [][C12_Step]_vars

\* an interior cell holds the value published in the second round
C12_Witness == \E w \in Workers : sum[w] # 0 /\ epoch[w] = 1

\* ---------------------------------------------------------------- C13
\* the cells of the last row and of the last column
BorderSet == {c \in Cells : c \div ncols = nrows - 1 \/ c % ncols = ncols - 1}

\* the driver has completed the seeding that precedes round 0
SeededOnce ==
    pc[Main] \in {"b_call", "b_wait", "bf_result", "print", "join", "destroyStateArray",
                  "barrier_destroy"}

\* a thread is inside the reset or the re-seeding of the last-arriver action
Reseeding == \E t \in Threads : bmutex = t /\ pc[t] \in {"rs_lock", "rs_set", "ib_lock", "ib_set"}

\* C13: initBorders visits exactly the rows + cols - 1 border cells; once a seeding
\* is complete (the driver's before round 0, and the one in each last-arriver
\* action) every border cell holds 1 until the next reset begins; and when the
\* last arriver releases a cycle every border cell holds 1 and every interior
\* cell is unset.
C13_BordersSeeded ==
    /\ BorderCells = BorderSet
    /\ Cardinality(BorderSet) = nrows + ncols - 1
    /\ (SeededOnce /\ ~Reseeding) => \A b \in BorderSet : sum[b] = 1
    /\ \A t \in Threads :
          pc[t] = "b_release" =>
              /\ \A b \in BorderSet : sum[b] = 1
              /\ \A w \in Cells \ BorderSet : sum[w] = 0

\* a worker is about to release the second cycle
C13_Witness == \E t \in Workers : pc[t] = "b_release" /\ generation = 1

InteriorSet == {c \in Cells : c \div ncols < nrows - 1 /\ c % ncols < ncols - 1}

\* thread t takes a step from position p
Steps(t, p) == pc[t] = p /\ pc'[t] # p

C15_Step ==
    \A c \in Cells :
        sum'[c] # sum[c] =>
            \/ c \in InteriorSet /\ c \in Workers /\ Steps(c, "publish")
            \/ c \notin InteriorSet /\ \E t \in Threads : Steps(t, "ib_set")
            \/ sum'[c] = 0 /\ \E t \in Threads : Steps(t, "rs_set") /\ bmutex = t

\* C15: a cell's sum is changed only by its owner: an interior cell by the
\* publish step of the worker bound to it, a border cell by initBorders, and any
\* cell by the reset of the last-arriver action (which unsets it); initBorders
\* changes no interior cell and a worker no cell but its own.
C15_OwnerWrites == [][C15_Step]_vars

\* with two workers, both interior cells and all border cells are set
C15_Witness ==
    /\ Cardinality(Workers) = 2
    /\ \A c \in Cells : sum[c] # 0

\* ---------------------------------------------------------------- C16
\* the launch loop has run to its end and the table still exists
Launched ==
    pc[Main] \in {"ib_lock", "ib_set", "b_call", "b_wait", "bf_result", "rs_lock",
                  "rs_set", "b_release", "print", "join", "destroyStateArray"}

\* the cells bound to the slots of thread_arr used so far
Bound == {thread_arr[k] : k \in 0..(thread_arr_len - 1)} \ {Free}

\* C16: the launch loop never uses a slot beyond thread_arr_len - 1, binds the
\* slots it has used to distinct interior cells r * ncols + c (r < nrows - 1,
\* c < ncols - 1), and once it has ended exactly (nrows - 1) * (ncols - 1)
\* workers run, one for each interior cell and none for a border cell.
C16_OneWorkerPerInteriorCell ==
    /\ thrd_count <= thread_arr_len
    /\ (pc[Main] = "spawn" /\ IsInterior(loopI[Main] \div ncols, loopI[Main] % ncols))
           => thrd_count < thread_arr_len
    /\ Bound \subseteq InteriorSet
    /\ Cardinality(Bound) = thrd_count
    /\ \A k \in 0..(thread_arr_len - 1) : (thread_arr[k] = Free) = (k >= thrd_count)
    /\ \A c \in Cells : (c \in Workers /\ pc[c] # "none") = (c \in Bound)
    /\ Launched =>
           /\ thrd_count = (nrows - 1) * (ncols - 1)
           /\ Bound = InteriorSet

\* the launch loop has ended on a grid with two interior cells
C16_Witness == Launched /\ thrd_count = 2 /\ pc[Main] = "ib_lock"

\* ---------------------------------------------------------------- C17
\* C17: the cell table and the barrier are destroyed only after every worker
\* has ended: while the driver destroys them and ever after, no worker is at a
\* position from which it can still touch a cell or wait at the barrier.
C17_DestroyAfterWorkers ==
    (\/ saState = "destroyed"
     \/ bState = "destroyed"
     \/ pc[Main] \in {"destroyStateArray", "barrier_destroy"})
        => \A w \in Workers : pc[w] = "done"

\* both are destroyed after two workers ran two rounds
C17_Witness ==
    /\ saState = "destroyed" /\ bState = "destroyed"
    /\ thrd_count = 2 /\ numRounds = 2 /\ actionCount = 2

\* ---------------------------------------------------------------- C18
C18_Step ==
    /\ gResult' # gResult => \E t \in Threads : Steps(t, "bf_result") /\ bmutex = t
    /\ pc[Main] = "print" =>
           /\ gResult' = gResult /\ captured' = captured
           /\ \A t \in Threads : pc'[t] # "bf_result"
    /\ Steps(Main, "print") =>
           /\ Len(captured) = round[Main] + 1
           /\ printed' = Append(printed, <<round[Main], captured[round[Main] + 1]>>)

\* C18: gResult is changed only by the last-arriver action; from the driver's
\* return from the barrier wait of round r to its printf no action runs and
\* gResult keeps its value, and the driver prints for round r the value of cell
\* (0,0) that the execution of the action for round r captured.
C18_ResultStable == [][C18_Step]_vars

\* the driver is about to print round 0 while a worker already publishes in round 1
C18_Witness ==
    /\ pc[Main] = "print" /\ round[Main] = 0
    /\ \E w \in Workers : round[w] = 1 /\ pc[w] = "publish"

\* ---------------------------------------------------------------- C19
\* C19: when condition waits return only after a broadcast, a worker at the
\* publish step has read three set values, a worker that arrives at the barrier
\* has its own cell set and keeps it set until the action resets the table, and
\* when the last-arriver action begins every interior cell, cell (0,0) included,
\* is set.
C19_PublishedBeforeBarrier ==
    /\ \A w \in Workers :
           /\ pc[w] = "publish" => AllSet(e_sum[w], s_sum[w], es_sum[w])
           /\ pc[w] = "b_call" => sum[w] # 0
           /\ (pc[w] = "b_wait" /\ myGen[w] = generation /\ bmutex = Free) => sum[w] # 0
    /\ \A t \in Threads :
           pc[t] = "bf_result" => \A c \in InteriorSet : sum[c] # 0

\* the action of the second cycle begins with two interior cells, both set
C19_Witness ==
    /\ \E t \in Threads : pc[t] = "bf_result"
    /\ actionCount = 1 /\ thrd_count = 2
    /\ \A c \in InteriorSet : sum[c] # 0

\* ---------------------------------------------------------------- C20
\* The values of one round, computed cell by cell from the last index down: each
\* cell is stored after its east, south and southeast neighbours, as the waits of
\* doWork enforce, on grids large enough for the int sums to wrap.
SweepInit ==
    /\ argc = 4
    /\ nrows \in 2..MaxDim
    /\ ncols \in 2..MaxDim
    /\ numRounds = 1
    /\ saState = "live"
    /\ sum = [c \in Cells |-> 0]
    /\ lock = [c \in Cells |-> Free]
    /\ pc = [t \in {Main} |-> "sweep"]
    /\ loopI = [t \in {Main} |-> arr_len - 1]
    /\ ph = <<>> /\ round = <<>> /\ e_sum = <<>> /\ s_sum = <<>> /\ es_sum = <<>>
    /\ thread_arr = <<>> /\ thrd_count = 0 /\ gResult = 0
    /\ bState = "uninit" /\ capacity = 0 /\ arrived = 0 /\ generation = 0
    /\ bmutex = Free /\ myGen = <<>> /\ entered = <<>> /\ returned = <<>>
    /\ actionCount = 0 /\ printed = <<>> /\ actionDone = 0 /\ spurious = 0
    /\ epoch = <<>> /\ captured = <<>> /\ fault = "none"
    /\ wfRet = Running /\ exitCode = Running

\* cell c lies in the last row or the last column
OnBorder(c) == c \div ncols = nrows - 1 \/ c % ncols = ncols - 1

SweepRest ==
    UNCHANGED <<argc, nrows, ncols, numRounds, saState, lock, pc, ph, round, e_sum,
                s_sum, es_sum, thread_arr, thrd_count, gResult, bState, capacity,
                arrived, generation, bmutex, myGen, entered, returned, actionCount,
                printed, actionDone, spurious, epoch, captured, fault, wfRet, exitCode>>

\* initBorders: the store to a border cell
SweepSeed ==
    /\ pc[Main] = "sweep" /\ loopI[Main] >= 0 /\ OnBorder(loopI[Main])
    /\ sum' = [sum EXCEPT ![loopI[Main]] = BorderValue]
    /\ loopI' = [loopI EXCEPT ![Main] = @ - 1]
    /\ SweepRest

\* doWork: the guarded store to an interior cell
SweepPublish ==
    /\ pc[Main] = "sweep" /\ loopI[Main] >= 0 /\ ~OnBorder(loopI[Main])
    /\ LET c == loopI[Main]
       IN sum' = IF AllSet(sum[E(c)], sum[S(c)], sum[ES(c)])
                   THEN [sum EXCEPT ![c] = NewSum(sum[E(c)], sum[S(c)], sum[ES(c)])]
                   ELSE sum
    /\ loopI' = [loopI EXCEPT ![Main] = @ - 1]
    /\ SweepRest

SweepNext == SweepSeed \/ SweepPublish

SweepSpec == SweepInit /\ [][SweepNext]_vars

\* C20: every value stored in a cell, by the border initialiser or by a worker,
\* is different from 0, also where the int sum has wrapped modulo 2^32: each
\* cell the sweep has passed is set.
C20_StoredNonZero ==
    \A c \in Cells : c > loopI[Main] => sum[c] # 0

\* a whole table in which some sum wrapped to a negative int
C20_Witness ==
    /\ loopI[Main] < 0
    /\ \E c \in Cells : sum[c] < 0

====
